---------------------------- MODULE Spec2Model ----------------------------
(***************************************************************************)
(* A model of the credential store (database.py) and of the HTTP handlers  *)
(* (main.py) of the application: the users table, the password-reset token *)
(* table, the register / login / direct-reset handlers and the conversion  *)
(* and download endpoints.                                                 *)
(*                                                                         *)
(* Three behaviours of the libraries the code calls are part of the model: *)
(*  - SQLite: a UNIQUE column rejects an INSERT whose value is already     *)
(*    present (sqlite3.IntegrityError); INTEGER PRIMARY KEY AUTOINCREMENT  *)
(*    hands out 1, 2, 3, ...; one statement is atomic; closing a           *)
(*    connection without commit rolls the open transaction back.           *)
(*  - passlib.hash.bcrypt: hash() draws a fresh salt; only the first 72    *)
(*    bytes of the password enter the digest (truncate_error is off by     *)
(*    default); verify() re-hashes with the stored salt and compares.      *)
(*  - subprocess.run(check=True): FileNotFoundError when the binary is     *)
(*    missing, CalledProcessError on a non-zero exit status.               *)
(* Passwords are byte strings bcrypt accepts (no NUL byte), written as     *)
(* sequences of byte values.                                               *)
(***************************************************************************)
EXTENDS Integers, Sequences, FiniteSets, TLC

VARIABLES
    users,      \* the users table: a sequence of rows, row i has id i
    plain,      \* history kept by the direct calls of SpecStore: plain[i] is the
                \* password last hashed into row i
    call,       \* the last database.py call that returned: function, arguments, result
    rpc,        \* reset_password_direct: position of each in-flight request
    rident,     \* reset_password_direct: username_or_email of each request
    rnew,       \* reset_password_direct: new_password of each request
    ruser,      \* reset_password_direct: the local variable user of each request
    resp,       \* the last HTTP response sent by a handler
    tokens,     \* the password_reset_tokens table: a sequence of rows, row i has id i
    now,        \* datetime.datetime.now(), in clock ticks
    tcall,      \* the last token-store call that returned: function, email and
                \* token arguments, results
    files,      \* the files present in the uploads directory
    cpc,        \* convert_to_pdf: position of each in-flight request
    cid         \* convert_to_pdf: file_id of each in-flight request

tokenVars == <<tokens, now, tcall>>
convVars == <<files, cpc, cid>>
vars == <<users, plain, call, rpc, rident, rnew, ruser, resp, tokenVars, convVars>>

---------------------------------------------------------------------------
(* Input domains.                                                          *)

\* Strings used as usernames and as emails (the same string may be both).
Names == {"a", "b"}

\* passlib.hash.bcrypt hashes the first 72 bytes of a password.
BcryptMaxLen == 72

\* A password one byte longer than bcrypt's limit: 72 bytes of 120 ("x"), then b.
LongPassword(b) == [i \in 1..(BcryptMaxLen + 1) |-> IF i <= BcryptMaxLen THEN 120 ELSE b]

\* One short password and two long ones that differ in byte 73 only.
Passwords == {<<112>>, LongPassword(49), LongPassword(50)}

\* Salts bcrypt.hash may draw.
Salts == {"s1", "s2"}

\* The reset_password_direct requests that may be in flight at once.
Requests == {1, 2}

\* Reset token strings.
TokenStrings == {"t1", "t2", "t3"}

\* The clock runs from 0 to MaxTime; expiry timestamps are drawn from 1..MaxTime.
MaxTime == 2

\* The convert_to_pdf requests that may be in flight at once.
Conversions == {1, 2}

\* Values uuid.uuid4() may return, and an identifier it never returns.
FileIds == {"u1", "u2"}
DownloadIds == FileIds \cup {"other"}

---------------------------------------------------------------------------
(* passlib.hash.bcrypt                                                     *)

Truncate(password) ==
    IF Len(password) > BcryptMaxLen THEN SubSeq(password, 1, BcryptMaxLen) ELSE password

\* bcrypt.hash(password) with the salt it drew.
bcrypt_hash(password, salt) == [salt |-> salt, digest |-> Truncate(password)]

\* bcrypt.verify(password, hash): hash the candidate with the stored salt and compare.
bcrypt_verify(password, hash) == bcrypt_hash(password, hash.salt) = hash

---------------------------------------------------------------------------
(* database.py: the users table                                            *)

\* Python's None for "no row" / "no user": a record whose id no row has.
None == [id |-> 0, username |-> "", email |-> ""]

\* cursor.fetchone() of SELECT ... WHERE username = ?
RowByUsername(us, username) ==
    LET rows == SelectSeq(us, LAMBDA r : r.username = username)
    IN  IF rows = <<>> THEN <<>> ELSE <<rows[1]>>

\* cursor.fetchone() of SELECT ... WHERE email = ?
RowByEmail(us, email) ==
    LET rows == SelectSeq(us, LAMBDA r : r.email = email)
    IN  IF rows = <<>> THEN <<>> ELSE <<rows[1]>>

\* Mutant: only users.username is declared UNIQUE.
IntegrityErrorUsernameOnly(us, username, email) ==
    \E i \in 1..Len(us) : us[i].username = username

\* Mutant: only users.email is declared UNIQUE.
IntegrityErrorEmailOnly(us, username, email) ==
    \E i \in 1..Len(us) : us[i].email = email

\* The UNIQUE constraints of users.username and users.email reject the INSERT.
IntegrityError(us, username, email) ==
    \E i \in 1..Len(us) : us[i].username = username \/ us[i].email = email

\* create_user: the result and the table afterwards.
create_user(us, username, email, password, salt) ==
    LET hashed_password == bcrypt_hash(password, salt)
    IN  IF IntegrityError(us, username, email)
        THEN [ok |-> FALSE, users |-> us]
        ELSE [ok |-> TRUE,
              users |-> Append(us, [id |-> Len(us) + 1, username |-> username,
                                    email |-> email, password |-> hashed_password])]

verify_user(us, username, password) ==
    LET row == RowByUsername(us, username)
    IN  row # <<>> /\ bcrypt_verify(password, row[1].password)

\* Mutant: the lookup by email selects on the username column.
get_user_by_email_wrong_column(us, email) ==
    LET row == RowByUsername(us, email)
    IN  IF row # <<>>
        THEN [id |-> row[1].id, username |-> row[1].username, email |-> row[1].email]
        ELSE None

get_user_by_email(us, email) ==
    LET row == RowByEmail(us, email)
    IN  IF row # <<>>
        THEN [id |-> row[1].id, username |-> row[1].username, email |-> row[1].email]
        ELSE None

\* Mutant: the lookup by username has lost its WHERE clause.
get_user_by_username_no_where(us, username) ==
    IF us # <<>>
    THEN [id |-> us[1].id, username |-> us[1].username, email |-> us[1].email]
    ELSE None

get_user_by_username(us, username) ==
    LET row == RowByUsername(us, username)
    IN  IF row # <<>>
        THEN [id |-> row[1].id, username |-> row[1].username, email |-> row[1].email]
        ELSE None

\* Mutant: the UPDATE selects on the username column.
update_user_password_wrong_column(us, email, new_password, salt) ==
    LET hashed_password == bcrypt_hash(new_password, salt)
        rowcount == Cardinality({i \in 1..Len(us) : us[i].username = email})
    IN  [ok |-> rowcount > 0,
         users |-> [i \in 1..Len(us) |->
                       IF us[i].username = email
                       THEN [us[i] EXCEPT !.password = hashed_password]
                       ELSE us[i]]]

\* Mutant: the UPDATE has lost its WHERE clause.
update_user_password_no_where(us, email, new_password, salt) ==
    LET hashed_password == bcrypt_hash(new_password, salt)
    IN  [ok |-> Len(us) > 0,
         users |-> [i \in 1..Len(us) |-> [us[i] EXCEPT !.password = hashed_password]]]

\* update_user_password: UPDATE users SET password = ? WHERE email = ?
update_user_password(us, email, new_password, salt) ==
    LET hashed_password == bcrypt_hash(new_password, salt)
        rowcount == Cardinality({i \in 1..Len(us) : us[i].email = email})
    IN  [ok |-> rowcount > 0,
         users |-> [i \in 1..Len(us) |->
                       IF us[i].email = email
                       THEN [us[i] EXCEPT !.password = hashed_password]
                       ELSE us[i]]]

\* The history of plaintexts after update_user_password(email, new_password).
PlainAfterUpdate(us, pl, email, new_password) ==
    [i \in 1..Len(us) |-> IF us[i].email = email THEN new_password ELSE pl[i]]

---------------------------------------------------------------------------
(* The functions of database.py called directly, in any order.             *)

NoCall == [fn |-> "none", args |-> <<>>, result |-> FALSE]
NoTokenCall == [fn |-> "none", args |-> <<>>, ok |-> FALSE, email |-> <<>>]
NoResp == [handler |-> "none", status |-> 0, body |-> "", ident |-> "", uid |-> 0]

AppIdle == UNCHANGED <<rpc, rident, rnew, ruser, resp, tokenVars, convVars>>

CreateUser(username, email, password) ==
    \E salt \in Salts :
        LET r == create_user(users, username, email, password, salt)
        IN  /\ users' = r.users
            /\ plain' = IF r.ok THEN Append(plain, password) ELSE plain
            /\ call' = [fn |-> "create_user", args |-> <<username, email, password>>,
                        result |-> r.ok]
            /\ AppIdle

VerifyUser(username, password) ==
    /\ call' = [fn |-> "verify_user", args |-> <<username, password>>,
                result |-> verify_user(users, username, password)]
    /\ UNCHANGED <<users, plain>>
    /\ AppIdle

UpdateUserPassword(email, new_password) ==
    \E salt \in Salts :
        LET r == update_user_password(users, email, new_password, salt)
        IN  /\ users' = r.users
            /\ plain' = PlainAfterUpdate(users, plain, email, new_password)
            /\ call' = [fn |-> "update_user_password", args |-> <<email, new_password>>,
                        result |-> r.ok]
            /\ AppIdle

Init ==
    /\ users = <<>>
    /\ plain = <<>>
    /\ call = NoCall
    /\ rpc = [p \in Requests |-> "idle"]
    /\ rident = [p \in Requests |-> ""]
    /\ rnew = [p \in Requests |-> <<>>]
    /\ ruser = [p \in Requests |-> None]
    /\ resp = NoResp
    /\ tokens = <<>>
    /\ now = 0
    /\ tcall = NoTokenCall
    /\ files = {}
    /\ cpc = [c \in Conversions |-> "idle"]
    /\ cid = [c \in Conversions |-> ""]

NextStore ==
    \/ \E username \in Names, email \in Names, password \in Passwords :
           CreateUser(username, email, password)
    \/ \E username \in Names, password \in Passwords : VerifyUser(username, password)
    \/ \E email \in Names, new_password \in Passwords :
           UpdateUserPassword(email, new_password)

SpecStore == Init /\ [][NextStore]_vars


---------------------------------------------------------------------------
(* main.py: the handlers.  register_user and login make one database call  *)
(* and are one step; reset_password_direct makes up to three database      *)
(* calls, each its own connection and statement, so requests served by     *)
(* different workers interleave between them.                              *)

StoreIdle == UNCHANGED <<call, tokenVars, convVars>>

Response(handler, status, body) ==
    [handler |-> handler, status |-> status, body |-> body, ident |-> "", uid |-> 0]

ResetResponse(status, body, ident, uid) ==
    [handler |-> "reset_password_direct", status |-> status, body |-> body,
     ident |-> ident, uid |-> uid]

\* POST /register
register_user(username, email, password) ==
    \E salt \in Salts :
        LET r == create_user(users, username, email, password, salt)
        IN  /\ users' = r.users
            /\ UNCHANGED plain
            /\ resp' = IF r.ok
                       THEN Response("register_user", 303, "/login?message=registration_success")
                       ELSE Response("register_user", 200, "Username or Email already exists")
            /\ UNCHANGED <<rpc, rident, rnew, ruser>>
            /\ StoreIdle

\* POST /login
login(username, password) ==
    /\ resp' = IF verify_user(users, username, password)
               THEN Response("login", 303, "/dashboard")
               ELSE Response("login", 200, "Invalid username or password")
    /\ UNCHANGED <<users, plain, rpc, rident, rnew, ruser>>
    /\ StoreIdle

\* Mutant: the confirmation check is gone and every request goes on to the lookup.
reset_password_direct_unchecked(p, username_or_email, new_password, confirm_new_password) ==
    /\ rpc[p] = "idle"
    /\ rpc' = [rpc EXCEPT ![p] = "get_user_by_email"]
    /\ rident' = [rident EXCEPT ![p] = username_or_email]
    /\ rnew' = [rnew EXCEPT ![p] = new_password]
    /\ UNCHANGED <<users, plain, ruser, resp>>
    /\ StoreIdle

\* POST /reset_password_direct, lines 83-84: the confirmation check.
reset_password_direct(p, username_or_email, new_password, confirm_new_password) ==
    /\ rpc[p] = "idle"
    /\ IF new_password # confirm_new_password
       THEN /\ resp' = ResetResponse(200, "Passwords do not match.", username_or_email, 0)
            /\ UNCHANGED <<rpc, rident, rnew>>
       ELSE /\ rpc' = [rpc EXCEPT ![p] = "get_user_by_email"]
            /\ rident' = [rident EXCEPT ![p] = username_or_email]
            /\ rnew' = [rnew EXCEPT ![p] = new_password]
            /\ UNCHANGED resp
    /\ UNCHANGED <<users, plain, ruser>>
    /\ StoreIdle

\* line 86: user = get_user_by_email(username_or_email)
reset_get_user_by_email(p) ==
    /\ rpc[p] = "get_user_by_email"
    /\ LET user == get_user_by_email(users, rident[p])
       IN  /\ ruser' = [ruser EXCEPT ![p] = user]
           /\ rpc' = [rpc EXCEPT ![p] = IF user = None THEN "get_user_by_username"
                                        ELSE "update_user_password"]
    /\ UNCHANGED <<users, plain, rident, rnew, resp>>
    /\ StoreIdle

\* lines 87-88 and 95-96: user = get_user_by_username(username_or_email)
reset_get_user_by_username(p) ==
    /\ rpc[p] = "get_user_by_username"
    /\ LET user == get_user_by_username(users, rident[p])
       IN  IF user = None
           THEN /\ resp' = ResetResponse(200, "No account found with that username or email.",
                                         rident[p], 0)
                /\ rpc' = [rpc EXCEPT ![p] = "idle"]
                /\ rident' = [rident EXCEPT ![p] = ""]
                /\ rnew' = [rnew EXCEPT ![p] = <<>>]
                /\ UNCHANGED ruser
           ELSE /\ ruser' = [ruser EXCEPT ![p] = user]
                /\ rpc' = [rpc EXCEPT ![p] = "update_user_password"]
                /\ UNCHANGED <<rident, rnew, resp>>
    /\ UNCHANGED <<users, plain>>
    /\ StoreIdle

\* lines 90-94: update_user_password(user["email"], new_password)
reset_update_user_password(p) ==
    /\ rpc[p] = "update_user_password"
    /\ \E salt \in Salts :
        LET r == update_user_password(users, ruser[p].email, rnew[p], salt)
        IN  /\ users' = r.users
            /\ UNCHANGED plain
            /\ resp' = IF r.ok
                       THEN ResetResponse(303, "/login?message=password_reset_success",
                                          rident[p], ruser[p].id)
                       ELSE ResetResponse(200, "Failed to reset password. Please try again.",
                                          rident[p], ruser[p].id)
    /\ rpc' = [rpc EXCEPT ![p] = "idle"]
    /\ rident' = [rident EXCEPT ![p] = ""]
    /\ rnew' = [rnew EXCEPT ![p] = <<>>]
    /\ ruser' = [ruser EXCEPT ![p] = None]
    /\ StoreIdle

NextApp ==
    \/ \E username \in Names, email \in Names, password \in Passwords :
           register_user(username, email, password)
    \/ \E username \in Names, password \in Passwords : login(username, password)
    \/ \E p \in Requests, username_or_email \in Names,
          new_password \in Passwords, confirm_new_password \in Passwords :
           reset_password_direct(p, username_or_email, new_password, confirm_new_password)
    \/ \E p \in Requests : reset_get_user_by_email(p)
    \/ \E p \in Requests : reset_get_user_by_username(p)
    \/ \E p \in Requests : reset_update_user_password(p)

SpecApp == Init /\ [][NextApp]_vars

---------------------------------------------------------------------------
(* database.py: the password_reset_tokens table.  A timestamp is a naive    *)
(* datetime, counted in clock ticks; sqlite3 stores it as ISO text and      *)
(* datetime.fromisoformat reads the same instant back.                      *)

\* cursor.fetchone() of SELECT ... FROM password_reset_tokens WHERE token = ?
RowByToken(ts, token) ==
    LET rows == SelectSeq(ts, LAMBDA r : r.token = token)
    IN  IF rows = <<>> THEN <<>> ELSE <<rows[1]>>

\* UPDATE password_reset_tokens SET used = 1 WHERE email = ? AND used = 0
InvalidateByEmail(ts, email) ==
    [i \in 1..Len(ts) |->
        IF ts[i].email = email /\ ~ts[i].used THEN [ts[i] EXCEPT !.used = TRUE] ELSE ts[i]]

\* Mutant: the new token is inserted without invalidating the earlier ones.
save_password_reset_token_keep_old(ts, email, token, expires_at) ==
    IF RowByToken(ts, token) # <<>>
    THEN [ok |-> FALSE, tokens |-> ts]
    ELSE [ok |-> TRUE,
          tokens |-> Append(ts, [id |-> Len(ts) + 1, email |-> email, token |-> token,
                                 expires_at |-> expires_at, used |-> FALSE])]

\* save_password_reset_token: the UPDATE and the INSERT run in one transaction;
\* a duplicate token fails the INSERT (token is UNIQUE), the function returns
\* False and the connection is closed uncommitted, which undoes the UPDATE.
save_password_reset_token(ts, email, token, expires_at) ==
    LET invalidated == InvalidateByEmail(ts, email)
    IN  IF RowByToken(invalidated, token) # <<>>
        THEN [ok |-> FALSE, tokens |-> ts]
        ELSE [ok |-> TRUE,
              tokens |-> Append(invalidated,
                                [id |-> Len(ts) + 1, email |-> email, token |-> token,
                                 expires_at |-> expires_at, used |-> FALSE])]

\* verify_password_reset_token at time t: <<email>>, or <<>> for None.
verify_password_reset_token(ts, token, t) ==
    LET row == RowByToken(ts, token)
    IN  IF row # <<>> /\ ~row[1].used /\ t < row[1].expires_at
        THEN <<row[1].email>>
        ELSE <<>>

\* invalidate_token: UPDATE password_reset_tokens SET used = 1 WHERE token = ?
invalidate_token(ts, token) ==
    [ok |-> Cardinality({i \in 1..Len(ts) : ts[i].token = token}) > 0,
     tokens |-> [i \in 1..Len(ts) |->
                    IF ts[i].token = token THEN [ts[i] EXCEPT !.used = TRUE] ELSE ts[i]]]

TokenIdle == UNCHANGED <<users, plain, call, rpc, rident, rnew, ruser, resp, convVars>>

SaveToken(email, token, expires_at) ==
    LET r == save_password_reset_token(tokens, email, token, expires_at)
    IN  /\ tokens' = r.tokens
        /\ tcall' = [fn |-> "save_password_reset_token",
                     args |-> <<email, token>>, ok |-> r.ok, email |-> <<>>]
        /\ UNCHANGED now
        /\ TokenIdle

VerifyToken(token) ==
    LET email == verify_password_reset_token(tokens, token, now)
    IN  /\ tcall' = [fn |-> "verify_password_reset_token", args |-> <<token>>,
                     ok |-> email # <<>>, email |-> email]
        /\ UNCHANGED <<tokens, now>>
        /\ TokenIdle

InvalidateToken(token) ==
    LET r == invalidate_token(tokens, token)
    IN  /\ tokens' = r.tokens
        /\ tcall' = [fn |-> "invalidate_token", args |-> <<token>>, ok |-> r.ok,
                     email |-> <<>>]
        /\ UNCHANGED now
        /\ TokenIdle

\* Time passes.
Tick ==
    /\ now < MaxTime
    /\ now' = now + 1
    /\ UNCHANGED <<tokens, tcall>>
    /\ TokenIdle

NextTokens ==
    \/ \E email \in Names, token \in TokenStrings, expires_at \in 1..MaxTime :
           SaveToken(email, token, expires_at)
    \/ \E token \in TokenStrings : VerifyToken(token)
    \/ \E token \in TokenStrings : InvalidateToken(token)
    \/ Tick

SpecTokens == Init /\ [][NextTokens]_vars

---------------------------------------------------------------------------
(* main.py: POST /convert and GET /download/{file_id}.  A conversion writes *)
(* the upload, runs the converter and then looks for the output file; the   *)
(* converter is an external process whose exit status and output are not    *)
(* decided by this program.                                                 *)

File(file_id, ext) == [id |-> file_id, ext |-> ext]

ConvIdle == UNCHANGED <<users, plain, call, rpc, rident, rnew, ruser, tokenVars>>

ConvertResponse(status, body, file_id) ==
    [handler |-> "convert_to_pdf", status |-> status, body |-> body,
     ident |-> file_id, uid |-> 0]

\* lines 21-26: draw the identifier and write the upload to {file_id}.docx
convert_write_input(c, file_id) ==
    /\ cpc[c] = "idle"
    /\ cid' = [cid EXCEPT ![c] = file_id]
    /\ files' = files \cup {File(file_id, "docx")}
    /\ cpc' = [cpc EXCEPT ![c] = "run"]
    /\ UNCHANGED resp
    /\ ConvIdle

\* Mutant: an error exit of the converter is not caught and counts as success.
convert_run_ignore_exit(c, outcome, produced) ==
    /\ cpc[c] = "run"
    /\ outcome = "FileNotFoundError" => ~produced
    /\ files' = IF produced THEN files \cup {File(cid[c], "pdf")} ELSE files
    /\ cpc' = [cpc EXCEPT ![c] = "exists"]
    /\ UNCHANGED <<cid, resp>>
    /\ ConvIdle

\* lines 29-36: subprocess.run([...], check=True) and its two except clauses.
\* outcome is how the call ended; produced says whether the converter wrote
\* {file_id}.pdf (a missing binary writes nothing).
convert_run(c, outcome, produced) ==
    /\ cpc[c] = "run"
    /\ outcome = "FileNotFoundError" => ~produced
    /\ files' = IF produced THEN files \cup {File(cid[c], "pdf")} ELSE files
    /\ IF outcome = "exit 0"
       THEN /\ cpc' = [cpc EXCEPT ![c] = "exists"]
            /\ UNCHANGED <<cid, resp>>
       ELSE /\ resp' = ConvertResponse(500,
                          IF outcome = "CalledProcessError"
                          THEN "PDF conversion failed."
                          ELSE "Server error: PDF converter not found.", "")
            /\ cpc' = [cpc EXCEPT ![c] = "idle"]
            /\ cid' = [cid EXCEPT ![c] = ""]
    /\ ConvIdle

\* lines 38-41: os.path.exists(output_path)
convert_check_output(c) ==
    /\ cpc[c] = "exists"
    /\ resp' = IF File(cid[c], "pdf") \in files
               THEN ConvertResponse(200, "completed", cid[c])
               ELSE ConvertResponse(500, "PDF output file not found after conversion.", "")
    /\ cpc' = [cpc EXCEPT ![c] = "idle"]
    /\ cid' = [cid EXCEPT ![c] = ""]
    /\ UNCHANGED files
    /\ ConvIdle

\* GET /download/{file_id}
download_pdf(file_id) ==
    /\ resp' = IF File(file_id, "pdf") \in files
               THEN [handler |-> "download_pdf", status |-> 200, body |-> "converted.pdf",
                     ident |-> file_id, uid |-> 0]
               ELSE [handler |-> "download_pdf", status |-> 404, body |-> "File not found",
                     ident |-> file_id, uid |-> 0]
    /\ UNCHANGED convVars
    /\ ConvIdle

Outcomes == {"exit 0", "CalledProcessError", "FileNotFoundError"}

NextConvert ==
    \/ \E c \in Conversions, file_id \in FileIds : convert_write_input(c, file_id)
    \/ \E c \in Conversions, outcome \in Outcomes, produced \in BOOLEAN :
           convert_run(c, outcome, produced)
    \/ \E c \in Conversions : convert_check_output(c)
    \/ \E file_id \in DownloadIds : download_pdf(file_id)

SpecConvert == Init /\ [][NextConvert]_vars

---------------------------------------------------------------------------
(* Properties of the users table under direct calls (SpecStore).           *)

UsernameTaken(us, username) == \E i \in 1..Len(us) : us[i].username = username
EmailTaken(us, email) == \E i \in 1..Len(us) : us[i].email = email

\* C1: create_user(username, email, password) returns False exactly when a user
\* with that username or with that email already exists, and then leaves the
\* users table as it was; otherwise it returns True and adds exactly one user,
\* with that username and email, after the existing rows.
C1_CreateUserContract ==
    [][call'.fn = "create_user" =>
         LET username == call'.args[1]
             email == call'.args[2]
             exists == UsernameTaken(users, username) \/ EmailTaken(users, email)
         IN  /\ call'.result = ~exists
             /\ exists => users' = users
             /\ ~exists =>
                  /\ Len(users') = Len(users) + 1
                  /\ SubSeq(users', 1, Len(users)) = users
                  /\ users'[Len(users')].username = username
                  /\ users'[Len(users')].email = email]_vars

\* C1 witness: a second creation with a username already taken, under a fresh
\* email, has returned False.
C1_Witness ==
    /\ call.fn = "create_user"
    /\ call.result = FALSE
    /\ UsernameTaken(users, call.args[1])
    /\ ~EmailTaken(users, call.args[2])

\* C3 as claimed: verify_user(username, password) returns True only when a user
\* with that username exists and password equals the password most recently
\* stored for that user, and it never changes the store.
C3_VerifyOnlyExactPassword ==
    [][call'.fn = "verify_user" =>
         /\ users' = users
         /\ call'.result =>
              \E i \in 1..Len(users) :
                  /\ users[i].username = call'.args[1]
                  /\ plain[i] = call'.args[2]]_vars

C5_UpdateFrame ==
    [][call'.fn = "update_user_password" =>
         /\ call'.result = EmailTaken(users, call'.args[1])
         /\ ~call'.result => users' = users
         /\ Len(users') = Len(users)
         /\ \A i \in 1..Len(users) :
              /\ users'[i].id = users[i].id
              /\ users'[i].username = users[i].username
              /\ users'[i].email = users[i].email
              /\ users[i].email # call'.args[1] => users'[i].password = users[i].password]_vars

\* C5 witness: an update has returned True in a table of two users and the
\* other user's password is still the one it was created with.
C5_Witness ==
    /\ call.fn = "update_user_password"
    /\ call.result = TRUE
    /\ Len(users) = 2
    /\ \E i \in 1..2 :
           /\ users[i].email # call.args[1]
           /\ plain[i] # call.args[2]
           /\ bcrypt_verify(plain[i], users[i].password)

---------------------------------------------------------------------------
(* Properties of the handlers under interleaved requests (SpecApp).        *)

\* C2: in every reachable state no two distinct users share a username and no
\* two distinct users share an email (nor an id).
C2_UniqueUsers ==
    \A i, j \in 1..Len(users) :
        i # j => /\ users[i].username # users[j].username
                 /\ users[i].email # users[j].email
                 /\ users[i].id # users[j].id

\* C2 witness: two users are registered, a registration has just been refused,
\* and a reset request is in flight.
C2_Witness ==
    /\ Len(users) = 2
    /\ resp.body = "Username or Email already exists"
    /\ \E p \in Requests : rpc[p] # "idle"

\* C6: a reset request whose new_password differs from confirm_new_password is
\* answered "Passwords do not match." in its first step, before any lookup: the
\* request never reaches a database call, and the users table is unchanged,
\* whatever the identifier is.
C6_MismatchRejectedBeforeLookup ==
    [][\A p \in Requests :
         rpc[p] = "idle" =>
           \A username_or_email \in Names,
              new_password \in Passwords, confirm_new_password \in Passwords :
               (/\ new_password # confirm_new_password
                /\ reset_password_direct(p, username_or_email, new_password,
                                         confirm_new_password))
               => /\ resp' = ResetResponse(200, "Passwords do not match.",
                                           username_or_email, 0)
                  /\ rpc'[p] = "idle"
                  /\ ruser' = ruser
                  /\ users' = users]_vars

\* C6 witness: a mismatched reset naming an existing user has been rejected.
C6_Witness ==
    /\ resp.handler = "reset_password_direct"
    /\ resp.body = "Passwords do not match."
    /\ UsernameTaken(users, resp.ident) \/ EmailTaken(users, resp.ident)

NoAccount(us, ident) == ~UsernameTaken(us, ident) /\ ~EmailTaken(us, ident)

\* C7: a reset request with matching passwords whose identifier is neither the
\* email nor the username of any existing user finds no user by email, finds
\* none by username, answers "No account found with that username or email."
\* and leaves the users table unchanged; it never reaches the update.
C7_UnknownAccountNotFound ==
    [][\A p \in Requests :
          NoAccount(users, rident[p]) =>
              /\ rpc[p] # "update_user_password"
              /\ (rpc[p] = "get_user_by_email" /\ rpc'[p] # rpc[p]) =>
                    /\ rpc'[p] = "get_user_by_username"
                    /\ users' = users
              /\ (rpc[p] = "get_user_by_username" /\ rpc'[p] # rpc[p]) =>
                    /\ rpc'[p] = "idle"
                    /\ resp' = ResetResponse(200,
                                   "No account found with that username or email.",
                                   rident[p], 0)
                    /\ users' = users]_vars

\* C7 witness: with a user registered, a reset for an identifier no user has was
\* answered with the account-not-found error.
C7_Witness ==
    /\ resp.body = "No account found with that username or email."
    /\ Len(users) >= 1
    /\ NoAccount(users, resp.ident)

\* The rows whose password hash a step changes.
Changed == {i \in 1..Len(users) : users'[i].password # users[i].password}

\* C10: a reset request with matching passwords changes the password of at most
\* one user, chosen by email before username: when the lookup by email runs and
\* some user's email equals the identifier, that user is chosen, even when
\* another user has the identifier as username; the lookup by username runs
\* only after the lookup by email found nobody, and chooses the user whose
\* username equals the identifier; the update changes only the chosen user's
\* row and always succeeds, so "Failed to reset password. Please try again." is
\* never sent.
C10_EmailBeforeUsername ==
    [][/\ Len(users') >= Len(users)
       /\ Cardinality(Changed) <= 1
       /\ resp'.body # "Failed to reset password. Please try again."
       /\ \A p \in Requests :
            /\ (rpc[p] = "get_user_by_email" /\ rpc'[p] # rpc[p]) =>
                  IF EmailTaken(users, rident[p])
                  THEN /\ rpc'[p] = "update_user_password"
                       /\ ruser'[p].email = rident[p]
                       /\ ruser'[p].id \in 1..Len(users)
                       /\ users[ruser'[p].id].email = rident[p]
                  ELSE rpc'[p] = "get_user_by_username"
            /\ (rpc[p] = "get_user_by_username" /\ rpc'[p] = "update_user_password") =>
                  /\ ruser'[p].username = rident[p]
                  /\ ruser'[p].id \in 1..Len(users)
                  /\ users[ruser'[p].id].username = rident[p]
            /\ (rpc[p] = "update_user_password" /\ rpc'[p] # rpc[p]) =>
                  /\ Changed \subseteq {ruser[p].id}
                  /\ bcrypt_verify(rnew[p], users'[ruser[p].id].password)
                  /\ resp' = ResetResponse(303, "/login?message=password_reset_success",
                                           rident[p], ruser[p].id)]_vars

\* C10 witness: a reset has succeeded for the user whose email is the
\* identifier while a different user has the identifier as username.
C10_Witness ==
    /\ resp.body = "/login?message=password_reset_success"
    /\ \E i, j \in 1..Len(users) :
           /\ i # j
           /\ resp.uid = users[i].id
           /\ users[i].email = resp.ident
           /\ users[j].username = resp.ident

---------------------------------------------------------------------------
(* Properties of the password-reset token table (SpecTokens).              *)

TokenUsed(ts, token) == \E i \in 1..Len(ts) : ts[i].token = token /\ ts[i].used

\* The rows of a token that is stored, unused and not expired at time t.
ValidRows(ts, token, t) ==
    {i \in 1..Len(ts) : ts[i].token = token /\ ~ts[i].used /\ t < ts[i].expires_at}

UnusedOf(ts, email) == {i \in 1..Len(ts) : ts[i].email = email /\ ~ts[i].used}

\* C8: verify_password_reset_token(token) returns the token's email exactly
\* when the token is stored, unused and the current time is before its expiry,
\* and None otherwise, without changing the table; a successful save for an
\* email leaves every earlier token of that email used and adds the new token
\* unused, so at most one token per email is unused after every step; after
\* invalidate_token(token) returns True the token is used, and a used token
\* stays used and verifies at no later time.
C8_TokenStore ==
    [][/\ (tcall'.fn = "verify_password_reset_token" /\ now' = now) =>
            /\ tokens' = tokens
            /\ \/ \E i \in ValidRows(tokens, tcall'.args[1], now) :
                      tcall'.email = <<tokens[i].email>>
               \/ /\ ValidRows(tokens, tcall'.args[1], now) = {}
                  /\ tcall'.email = <<>>
       /\ (tcall'.fn = "save_password_reset_token" /\ tcall'.ok /\ tokens' # tokens) =>
            /\ Len(tokens') = Len(tokens) + 1
            /\ \A i \in 1..Len(tokens) : tokens[i].email = tcall'.args[1] => tokens'[i].used
            /\ tokens'[Len(tokens')].token = tcall'.args[2]
            /\ UnusedOf(tokens', tcall'.args[1]) = {Len(tokens')}
       /\ \A email \in Names : Cardinality(UnusedOf(tokens', email)) <= 1
       /\ (tcall'.fn = "invalidate_token" /\ tcall'.ok) =>
            TokenUsed(tokens', tcall'.args[1])
       /\ \A token \in TokenStrings :
            TokenUsed(tokens, token) =>
                /\ TokenUsed(tokens', token)
                /\ \A t \in 0..MaxTime :
                       verify_password_reset_token(tokens', token, t) = <<>>]_vars

\* C8 witness: a token that is stored and not expired, but used because a later
\* token was saved for its email, has just failed to verify.
C8_Witness ==
    /\ tcall.fn = "verify_password_reset_token"
    /\ tcall.email = <<>>
    /\ \E i, j \in 1..Len(tokens) :
           /\ i < j
           /\ tokens[i].token = tcall.args[1]
           /\ tokens[i].used
           /\ now < tokens[i].expires_at
           /\ tokens[j].email = tokens[i].email
           /\ ~tokens[j].used

---------------------------------------------------------------------------
(* Properties of the conversion and download endpoints (SpecConvert).      *)

ConvertFailures ==
    {"PDF conversion failed.", "Server error: PDF converter not found.",
     "PDF output file not found after conversion."}

\* C9: a conversion whose converter call raises (error exit, or binary missing)
\* is answered "failed" with HTTP 500; one whose converter exits with status 0
\* is answered "completed" with its identifier when {id}.pdf exists and
\* "failed" with HTTP 500 when it does not; no other answer is sent.  Output
\* files are written only by a converter run for that identifier and are never
\* removed, so the file of a completed conversion stays downloadable; a download
\* returns the file when {id}.pdf exists and HTTP 404 when it does not.
C9_ConvertAndDownload ==
    [][/\ files \subseteq files'
       /\ \A f \in files' \ files :
            f.ext = "pdf" => \E c \in Conversions : cpc[c] = "run" /\ cid[c] = f.id
       /\ \A c \in Conversions, outcome \in Outcomes, produced \in BOOLEAN :
            (outcome # "exit 0" /\ convert_run(c, outcome, produced)) =>
                /\ resp'.handler = "convert_to_pdf"
                /\ resp'.status = 500
                /\ resp'.body \in ConvertFailures
                /\ cpc'[c] = "idle"
       /\ \A c \in Conversions :
            /\ (cpc[c] = "run" /\ cpc'[c] = "exists") => resp' = resp
            /\ (cpc[c] = "exists" /\ cpc'[c] # cpc[c]) =>
                  /\ cpc'[c] = "idle"
                  /\ IF File(cid[c], "pdf") \in files
                     THEN resp' = ConvertResponse(200, "completed", cid[c])
                     ELSE /\ resp'.handler = "convert_to_pdf"
                          /\ resp'.status = 500
                          /\ resp'.body \in ConvertFailures
       /\ resp'.handler = "convert_to_pdf" =>
            \/ /\ resp'.status = 200
               /\ resp'.body = "completed"
               /\ File(resp'.ident, "pdf") \in files'
            \/ /\ resp'.status = 500
               /\ resp'.body \in ConvertFailures
       /\ (cpc' = cpc /\ resp'.handler = "download_pdf") =>
            \/ resp'.status = 200 /\ File(resp'.ident, "pdf") \in files
            \/ resp'.status = 404 /\ File(resp'.ident, "pdf") \notin files]_vars

\* C9 witness: a conversion has completed and its file is there, while the
\* other identifier's upload has no output file.
C9_Witness ==
    /\ resp.handler = "convert_to_pdf"
    /\ resp.body = "completed"
    /\ File(resp.ident, "pdf") \in files
    /\ \E file_id \in FileIds :
           File(file_id, "docx") \in files /\ File(file_id, "pdf") \notin files

=============================================================================
